---- MODULE Spec2Model ----
(***************************************************************************)
(* Model of the MCP bridge: MCPClient.process_query (src/client.py) and    *)
(* the /query endpoint handle_query (src/main.py).                         *)
(*                                                                         *)
(* One request is followed from the endpoint through the scoped transport  *)
(* and session, the tool listing, the first completion call, the loop over *)
(* the blocks of the first response (tool call, follow-up completion call) *)
(* and the exit of the two context managers, to the HTTP response; the     *)
(* next request starts from there.                                         *)
(* Python lists are references: the assistant turns stored in `messages`   *)
(* hold the list object `assistant_content`, so they are modelled as       *)
(* references that are resolved when the transcript is read.               *)
(***************************************************************************)
EXTENDS Integers, Sequences, FiniteSets, TLC

\* ---- bounds ------------------------------------------------------------
MaxBlocks == 3      \* longest first model response, in content blocks

\* ---- values ------------------------------------------------------------
Block(type, text, name, input, id, content) ==
    [type |-> type, text |-> text, name |-> name, input |-> input,
     id |-> id, content |-> content]

TextBlock(t) == Block("text", t, "", "", "", "")
ToolUseBlock(n, a, i) == Block("tool_use", "", n, a, i, "")
OtherBlock == Block("thinking", "", "", "", "", "")
ToolResultBlock(i, c) == Block("tool_result", "", "", "", i, c)
NoBlock == Block("none", "", "", "", "", "")

QueryTexts == {"Book a flight"}

FirstBlocks ==
    { TextBlock("A"), TextBlock("B"), OtherBlock,
      ToolUseBlock("book_flight", "{'dest': 'SFO'}", "id1"),
      ToolUseBlock("get_time", "{}", "id2") }

RECURSIVE SeqsUpTo(_, _)
SeqsUpTo(S, n) ==
    IF n = 0 THEN { <<>> }
    ELSE LET shorter == SeqsUpTo(S, n - 1)
         IN  shorter \cup { Append(s, x) : s \in shorter, x \in S }

FirstResponses == SeqsUpTo(FirstBlocks, MaxBlocks)

FollowUpResponses ==
    { << TextBlock("Your flight is booked.") >>,
      << TextBlock("C"), ToolUseBlock("get_time", "{}", "id3"), TextBlock("D") >> }

Payloads == { "confirmed #123" }

Catalogs == { << "book_flight", "get_time" >>, << "get_time", "book_flight" >> }

\* What a failing call raises: a bare exception or an exception group.
Exc(type, text) == [type |-> type, text |-> text]
Naked(e) == [group |-> FALSE, message |-> "", exceptions |-> << e >>]
Group(m, es) == [group |-> TRUE, message |-> m, exceptions |-> es]
NoRaise == [group |-> FALSE, message |-> "", exceptions |-> << >>]

TaskGroupMsg == "unhandled errors in a TaskGroup"

TransportFaults ==
    { Naked(Exc("ConnectError", "connection refused")),
      Group(TaskGroupMsg, << Exc("ConnectError", "connection refused") >>),
      Group(TaskGroupMsg, << Exc("ConnectError", "connection refused"),
                             Exc("McpError", "closed") >>) }

CloseFaults == { Group(TaskGroupMsg, << Exc("McpError", "closed") >>) }

ListFaults ==
    { Naked(Exc("McpError", "closed")),
      Naked(Exc("APIStatusError", "429")) }

CompletionFaults == { Naked(Exc("APIStatusError", "429")) }

ToolFaults == { Naked(Exc("ToolExecutionError", "timeout")) }

ShellFaults == { Naked(Exc("UnicodeEncodeError", "codec")) }

Resources == { "transport", "session" }

\* ---- pure helpers ------------------------------------------------------
NumStr(n) ==
    CASE n = 0 -> "0" [] n = 1 -> "1" [] n = 2 -> "2" [] n = 3 -> "3"
      [] OTHER -> "many"

\* str(e) of a raised value: the text of a bare exception; for an exception
\* group the message and the number of members, never the members' texts.
Str(r) ==
    IF r.group \/ Len(r.exceptions) # 1
    THEN r.message \o " (" \o NumStr(Len(r.exceptions)) \o " sub-exception"
         \o (IF Len(r.exceptions) = 1 THEN "" ELSE "s") \o ")"
    ELSE r.exceptions[1].text

\* "\n".join(final_text)
RECURSIVE Join(_)
Join(s) ==
    IF Len(s) = 0 THEN ""
    ELSE IF Len(s) = 1 THEN s[1]
    ELSE s[1] \o "\n" \o Join(Tail(s))

\* The f-strings of lines 99 and 135; the backquote around the tool name is
\* written as | here.
ToolMarker(name, args) ==
    "[Tool |" \o name \o "| called with args " \o args \o "]"

ErrorNote(name, r) == "Error calling tool |" \o name \o "|: " \o Str(r)

IsPrefix(s, t) == Len(s) <= Len(t) /\ SubSeq(t, 1, Len(s)) = s

\* ---- state -------------------------------------------------------------
VARIABLES
    pc,                 \* position of the request in handle_query / process_query
    query,              \* request.query
    open,               \* context managers entered and not yet exited
    acq,                \* per resource: times entered during this request
    rel,                \* per resource: times exited during this request
    available_tools,    \* catalog built from list_tools
    messages,           \* the list `messages`; assistant turns hold a reference
    assistant_content,  \* the list `assistant_content`
    final_text,         \* the list `final_text`
    content_iter,       \* response.content the for loop of line 81 iterates
    idx,                \* position of that loop (1-based)
    response,           \* the variable `response` (rebound at line 120)
    result,             \* value returned by process_query
    raised,             \* what process_query raises (NoRaise when nothing)
    failedOp,           \* the call whose fault left the async-with body
    terminal,           \* how process_query ended: none, Done, Failed, Cancelled
    handlerRaised,      \* what handle_query's own statements raised
    calls,              \* external calls of this request, in order
    http,               \* HTTP responses produced for this request
    logged,             \* causes printed by the loop of lines 144-146
    context,            \* __context__ of the raised RuntimeError
    startup_error,      \* what lifespan raised, and the probe fault behind it
    task,               \* concurrent requests: position, iterator, result
    frame,              \* where each request keeps its local variables
    sessions,           \* ClientSession objects entered and not exited
    handles             \* number of ClientSession objects created

vars == << pc, query, open, acq, rel, available_tools, messages,
           assistant_content, final_text, content_iter, idx, response,
           result, raised, failedOp, terminal, handlerRaised, calls, http,
           logged, context, startup_error, task, frame, sessions, handles >>

ConcVars == << task, frame, sessions, handles >>

SeqVars == << pc, query, open, acq, rel, available_tools, messages,
              assistant_content, final_text, content_iter, idx, response,
              result, raised, failedOp, terminal, handlerRaised, calls, http,
              logged, context, startup_error >>

\* ---- transcript --------------------------------------------------------
UserText(q) == [role |-> "user", text |-> q, blocks |-> << >>, ref |-> FALSE]
AssistantRef == [role |-> "assistant", text |-> "", blocks |-> << >>, ref |-> TRUE]
UserBlocks(bs) == [role |-> "user", text |-> "", blocks |-> bs, ref |-> FALSE]

\* The transcript as a reader (the completion call) sees it: an assistant
\* turn shows the current content of the shared list.
View(msgs, ac) ==
    [i \in 1..Len(msgs) |->
        [role |-> msgs[i].role, text |-> msgs[i].text,
         blocks |-> IF msgs[i].ref THEN ac ELSE msgs[i].blocks]]

Transcript == View(messages, assistant_content)

RECURSIVE TextsOf(_)
TextsOf(bs) ==
    IF Len(bs) = 0 THEN << >>
    ELSE (IF bs[1].type = "text" THEN << bs[1].text >> ELSE << >>)
         \o TextsOf(Tail(bs))

\* ---- call log ----------------------------------------------------------
\* op: the call; outcome: ok, error or cancelled; tool: the tool_use block a
\* call_tool or follow-up call belongs to; transcript, tools: what a
\* completion call was given; resp: what it returned; exc: what it raised.
Call(op, outcome, tool, transcript, tools, resp, exc) ==
    [op |-> op, outcome |-> outcome, tool |-> tool, transcript |-> transcript,
     tools |-> tools, resp |-> resp, exc |-> exc]

Plain(op, outcome, exc) == Call(op, outcome, NoBlock, << >>, << >>, << >>, exc)

Log(c) == calls' = Append(calls, c)

\* ---- scoped resources (async with, lines 46-47) -------------------------
Enter(r) ==
    /\ open' = open \cup {r}
    /\ acq' = [acq EXCEPT ![r] = @ + 1]
    /\ UNCHANGED rel

\* Variant: only the outer context manager is exited.
UnwindOuterOnly ==
    /\ open' = open \ {"transport"}
    /\ rel' = [rel EXCEPT !["transport"] = @ + (IF "transport" \in open THEN 1 ELSE 0)]
    /\ UNCHANGED acq

\* Leaving the async-with blocks exits every context manager entered.
Unwind ==
    /\ open' = {}
    /\ rel' = [r \in Resources |-> rel[r] + (IF r \in open THEN 1 ELSE 0)]
    /\ UNCHANGED acq

\* except* Exception (lines 141-147): a bare exception is wrapped in a group,
\* and a RuntimeError carrying str(eg) is raised.
AsGroup(r) == IF r.group THEN r ELSE Group("", r.exceptions)

QueryError(r) ==
    Naked(Exc("RuntimeError", "Error processing query via MCP: " \o Str(AsGroup(r))))

\* Variant: the loop stops after the first member of the group.
LogFirstCause(eg) == logged' = << eg.exceptions[1] >>

\* lines 144-146: one line and one traceback per member of eg.exceptions
LogCauses(eg) == logged' = eg.exceptions

\* Variant: the except* block logs the causes and does not raise.
FailSwallowed(op, r) ==
    /\ Unwind
    /\ LogCauses(AsGroup(r))
    /\ context' = NoRaise
    /\ UNCHANGED << startup_error, ConcVars >>
    /\ pc' = "Done"
    /\ terminal' = "Done"
    /\ raised' = NoRaise
    /\ failedOp' = op

\* An exception leaves the async-with body: contexts exit, except* runs.
Fail(op, r) ==
    /\ Unwind
    /\ LogCauses(AsGroup(r))
    /\ context' = AsGroup(r)
    /\ UNCHANGED << startup_error, ConcVars >>
    /\ pc' = "Failed"
    /\ terminal' = "Failed"
    /\ raised' = QueryError(r)
    /\ failedOp' = op

Current == content_iter[idx]

AfterBlock(i, bs) == IF i + 1 > Len(bs) THEN "closing" ELSE "loop"

LoopVars == << available_tools, messages, assistant_content, final_text,
               content_iter, idx, response >>

\* ---- startup probe (client.py 27-38, main.py 14-27) ---------------------
\* test_connection's except clause (line 37-38), then lifespan's (line 24-27)
ConnectivityError(r) ==
    Naked(Exc("RuntimeError", "Failed to connect to MCP server: " \o Str(r)))

StartupError(r) ==
    Naked(Exc("RuntimeError", "MCP connection failed: " \o Str(ConnectivityError(r))))

NoStartupError == [raised |-> NoRaise, context |-> NoRaise]

ProbeFrame ==
    UNCHANGED << query, LoopVars, result, raised, failedOp, terminal,
                 handlerRaised, http, logged, context, ConcVars >>

\* Variant: lifespan logs the failure of the probe and goes on to yield.
ProbeFailIgnored(op, r) ==
    /\ Unwind
    /\ Log(Plain(op, "error", r))
    /\ startup_error' = NoStartupError
    /\ pc' = "idle"
    /\ ProbeFrame

\* a step of the probe raises: the contexts exit, test_connection raises the
\* connectivity error, lifespan raises in turn and never reaches its yield
ProbeFail(op, r) ==
    /\ Unwind
    /\ Log(Plain(op, "error", r))
    /\ startup_error' = [raised |-> StartupError(r), context |-> r]
    /\ pc' = "aborted"
    /\ ProbeFrame

ProbeOpenOk ==
    /\ pc = "probe_open"
    /\ Enter("transport")
    /\ Log(Plain("probe_open", "ok", NoRaise))
    /\ pc' = "probe_enter"
    /\ ProbeFrame
    /\ UNCHANGED startup_error

ProbeOpenFail ==
    /\ pc = "probe_open"
    /\ \E r \in TransportFaults : ProbeFail("probe_open", r)

ProbeEnterOk ==
    /\ pc = "probe_enter"
    /\ Enter("session")
    /\ Log(Plain("probe_enter", "ok", NoRaise))
    /\ pc' = "probe_init"
    /\ ProbeFrame
    /\ UNCHANGED startup_error

ProbeEnterFail ==
    /\ pc = "probe_enter"
    /\ \E r \in TransportFaults : ProbeFail("probe_enter", r)

\* line 35
ProbeInitOk ==
    /\ pc = "probe_init"
    /\ Log(Plain("probe_initialize", "ok", NoRaise))
    /\ pc' = "probe_list"
    /\ ProbeFrame
    /\ UNCHANGED << open, acq, rel, startup_error >>

ProbeInitFail ==
    /\ pc = "probe_init"
    /\ \E r \in TransportFaults : ProbeFail("probe_initialize", r)

\* line 36: the tools listed are not kept
ProbeListOk ==
    /\ pc = "probe_list"
    /\ \E cat \in Catalogs :
          Log(Call("probe_list_tools", "ok", NoBlock, << >>, cat, << >>, NoRaise))
    /\ pc' = "probe_closing"
    /\ ProbeFrame
    /\ UNCHANGED << open, acq, rel, startup_error >>

ProbeListFail ==
    /\ pc = "probe_list"
    /\ \E r \in ListFaults : ProbeFail("probe_list_tools", r)

\* the async-with blocks exit; test_connection returns; lifespan yields
ProbeCloseOk ==
    /\ pc = "probe_closing"
    /\ Unwind
    /\ Log(Plain("probe_close", "ok", NoRaise))
    /\ pc' = "idle"
    /\ ProbeFrame
    /\ UNCHANGED startup_error

ProbeCloseFail ==
    /\ pc = "probe_closing"
    /\ \E r \in CloseFaults : ProbeFail("probe_close", r)

\* ---- handle_query entry (main.py 59-71) --------------------------------
Reply(status, key, text) == [status |-> status, key |-> key, text |-> text]

Fresh(q) ==
    /\ query' = q
    /\ acq' = [r \in Resources |-> 0]
    /\ rel' = [r \in Resources |-> 0]
    /\ available_tools' = << >>
    /\ messages' = << >>
    /\ assistant_content' = << >>
    /\ final_text' = << >>
    /\ content_iter' = << >>
    /\ idx' = 0
    /\ response' = << >>
    /\ result' = ""
    /\ raised' = NoRaise
    /\ failedOp' = "none"
    /\ terminal' = "none"
    /\ calls' = << >>
    /\ logged' = << >>
    /\ context' = NoRaise
    /\ UNCHANGED << startup_error, ConcVars >>

\* no request is being handled: the next step starts a new one
AtRest == pc \in {"idle", "responded", "Cancelled"}

Receive ==
    /\ AtRest
    /\ \E q \in QueryTexts : Fresh(q)
    /\ handlerRaised' = NoRaise
    /\ http' = << >>
    /\ pc' = "open"
    /\ UNCHANGED open

\* except Exception (lines 81-84) for a fault of the handler itself at
\* line 68, before the core is entered
HandlerFault ==
    /\ AtRest
    /\ \E q \in QueryTexts : Fresh(q)
    /\ \E r \in ShellFaults :
          /\ handlerRaised' = r
          /\ http' = << Reply(400, "detail", Str(r)) >>
    /\ pc' = "responded"
    /\ UNCHANGED open

\* ---- process_query (client.py 40-147) ----------------------------------
OpenOk ==
    /\ pc = "open"
    /\ Enter("transport")
    /\ Log(Plain("open", "ok", NoRaise))
    /\ pc' = "enter"
    /\ UNCHANGED << query, terminal, handlerRaised,
                    LoopVars, result, raised, failedOp, http >>
    /\ UNCHANGED << logged, context, startup_error, ConcVars >>

OpenFail ==
    /\ pc = "open"
    /\ \E r \in TransportFaults :
          /\ Fail("open", r)
          /\ Log(Plain("open", "error", r))
    /\ UNCHANGED << query, handlerRaised,
                    LoopVars, result, http >>

\* Variant: the body starts listing without the handshake of line 48.
EnterOkNoHandshake ==
    /\ pc = "enter"
    /\ Enter("session")
    /\ Log(Plain("enter", "ok", NoRaise))
    /\ pc' = "list"
    /\ UNCHANGED << query, terminal, handlerRaised,
                    LoopVars, result, raised, failedOp, http >>
    /\ UNCHANGED << logged, context, startup_error, ConcVars >>

\* line 47: the ClientSession context is entered
EnterOk ==
    /\ pc = "enter"
    /\ Enter("session")
    /\ Log(Plain("enter", "ok", NoRaise))
    /\ pc' = "init"
    /\ UNCHANGED << query, terminal, handlerRaised,
                    LoopVars, result, raised, failedOp, http >>
    /\ UNCHANGED << logged, context, startup_error, ConcVars >>

EnterFail ==
    /\ pc = "enter"
    /\ \E r \in TransportFaults :
          /\ Fail("enter", r)
          /\ Log(Plain("enter", "error", r))
    /\ UNCHANGED << query, handlerRaised,
                    LoopVars, result, http >>

InitOk ==
    /\ pc = "init"
    /\ Log(Plain("initialize", "ok", NoRaise))
    /\ pc' = "list"
    /\ UNCHANGED << query, terminal, handlerRaised,
                    open, acq, rel, LoopVars, result, raised,
                    failedOp, http >>
    /\ UNCHANGED << logged, context, startup_error, ConcVars >>

\* Variant: the failure of session.initialize is swallowed and the query goes on.
InitFailIgnored ==
    /\ pc = "init"
    /\ \E r \in TransportFaults : Log(Plain("initialize", "error", r))
    /\ pc' = "list"
    /\ UNCHANGED << query, terminal, handlerRaised, open, acq, rel,
                    LoopVars, result, raised, failedOp, http >>
    /\ UNCHANGED << logged, context, startup_error, ConcVars >>

InitFail ==
    /\ pc = "init"
    /\ \E r \in TransportFaults :
          /\ Fail("initialize", r)
          /\ Log(Plain("initialize", "error", r))
    /\ UNCHANGED << query, handlerRaised,
                    LoopVars, result, http >>

\* lines 52-69: catalog, then messages / assistant_content / final_text
ListOk ==
    /\ pc = "list"
    /\ \E cat \in Catalogs :
          /\ available_tools' = cat
          /\ Log(Call("list_tools", "ok", NoBlock, << >>, cat, << >>, NoRaise))
    /\ messages' = << UserText(query) >>
    /\ assistant_content' = << >>
    /\ final_text' = << >>
    /\ pc' = "complete"
    /\ UNCHANGED << query, terminal, handlerRaised,
                    open, acq, rel, content_iter, idx,
                    response, result, raised, failedOp, http >>
    /\ UNCHANGED << logged, context, startup_error, ConcVars >>

\* lines 61-64 turn an APIStatusError into a RuntimeError; anything else
\* leaves the block as it is.
ListRaise(r) ==
    IF ~r.group /\ r.exceptions[1].type = "APIStatusError"
    THEN Naked(Exc("RuntimeError", "Claude API error: " \o r.exceptions[1].text))
    ELSE r

ListFail ==
    /\ pc = "list"
    /\ \E r \in ListFaults :
          /\ Fail("list_tools", ListRaise(r))
          /\ Log(Plain("list_tools", "error", r))
    /\ UNCHANGED << query, handlerRaised,
                    LoopVars, result, http >>

\* Variant: the first completion call is given the catalog in reverse order.
CompleteOkReordered ==
    /\ pc = "complete"
    /\ \E resp \in FirstResponses :
          /\ response' = resp
          /\ content_iter' = resp
          /\ Log(Call("complete", "ok", NoBlock, Transcript,
                      [k \in 1..Len(available_tools) |->
                          available_tools[Len(available_tools) + 1 - k]],
                      resp, NoRaise))
          /\ pc' = AfterBlock(0, resp)
    /\ idx' = 1
    /\ UNCHANGED << query, terminal, handlerRaised,
                    open, acq, rel, available_tools, messages,
                    assistant_content, final_text, result, raised, failedOp, http >>
    /\ UNCHANGED << logged, context, startup_error, ConcVars >>

\* lines 72-78
CompleteOk ==
    /\ pc = "complete"
    /\ \E resp \in FirstResponses :
          /\ response' = resp
          /\ content_iter' = resp
          /\ Log(Call("complete", "ok", NoBlock, Transcript, available_tools, resp,
                      NoRaise))
          /\ pc' = AfterBlock(0, resp)
    /\ idx' = 1
    /\ UNCHANGED << query, terminal, handlerRaised,
                    open, acq, rel, available_tools, messages,
                    assistant_content, final_text, result, raised, failedOp, http >>
    /\ UNCHANGED << logged, context, startup_error, ConcVars >>

CompleteFail ==
    /\ pc = "complete"
    /\ \E r \in CompletionFaults :
          /\ Fail("complete", r)
          /\ Log(Call("complete", "error", NoBlock, Transcript, available_tools,
                      << >>, r))
    /\ UNCHANGED << query, handlerRaised,
                    LoopVars, result, http >>

\* lines 82-85
ProcessText ==
    /\ pc = "loop"
    /\ Current.type = "text"
    /\ final_text' = Append(final_text, Current.text)
    /\ assistant_content' = Append(assistant_content, Current)
    /\ idx' = idx + 1
    /\ pc' = AfterBlock(idx, content_iter)
    /\ UNCHANGED << query, terminal, handlerRaised,
                    open, acq, rel, available_tools, messages,
                    content_iter, response, result, raised, failedOp, calls, http >>
    /\ UNCHANGED << logged, context, startup_error, ConcVars >>

\* Variant: a block that is not a tool request is handled as text.
SkipBlockAsText ==
    /\ pc = "loop"
    /\ Current.type \notin {"text", "tool_use"}
    /\ final_text' = Append(final_text, Current.text)
    /\ assistant_content' = Append(assistant_content, Current)
    /\ idx' = idx + 1
    /\ pc' = AfterBlock(idx, content_iter)
    /\ UNCHANGED << query, terminal, handlerRaised, open, acq, rel,
                    available_tools, messages, content_iter, response, result,
                    raised, failedOp, calls, http >>
    /\ UNCHANGED << logged, context, startup_error, ConcVars >>

\* a block that is neither text nor tool_use matches no branch
SkipBlock ==
    /\ pc = "loop"
    /\ Current.type \notin {"text", "tool_use"}
    /\ idx' = idx + 1
    /\ pc' = AfterBlock(idx, content_iter)
    /\ UNCHANGED << query, terminal, handlerRaised,
                    open, acq, rel, available_tools, messages,
                    assistant_content, final_text, content_iter, response,
                    result, raised, failedOp, terminal, handlerRaised, calls, http >>
    /\ UNCHANGED << logged, context, startup_error, ConcVars >>

\* Variant: the tool result is not spliced into the transcript.
InvokeOkNoExtend ==
    /\ pc = "loop"
    /\ Current.type = "tool_use"
    /\ final_text' = Append(final_text, ToolMarker(Current.name, Current.input))
    /\ assistant_content' = Append(assistant_content, Current)
    /\ Log(Call("call_tool", "ok", Current, << >>, << >>, << >>, NoRaise))
    /\ pc' = "followup"
    /\ UNCHANGED << query, terminal, handlerRaised, open, acq, rel,
                    available_tools, messages, content_iter, idx, response,
                    result, raised, failedOp, http >>
    /\ UNCHANGED << logged, context, startup_error, ConcVars >>

\* Variant: the marker of line 99 is also stored as a block of the turn.
InvokeOkMarkerStored ==
    /\ pc = "loop"
    /\ Current.type = "tool_use"
    /\ \E p \in Payloads :
          messages' = messages \o
              << AssistantRef, UserBlocks(<< ToolResultBlock(Current.id, p) >>) >>
    /\ final_text' = Append(final_text, ToolMarker(Current.name, Current.input))
    /\ assistant_content' =
          assistant_content
          \o << TextBlock(ToolMarker(Current.name, Current.input)), Current >>
    /\ Log(Call("call_tool", "ok", Current, << >>, << >>, << >>, NoRaise))
    /\ pc' = "followup"
    /\ UNCHANGED << query, terminal, handlerRaised,
                    open, acq, rel, available_tools,
                    content_iter, idx, response, result, raised, failedOp, http >>
    /\ UNCHANGED << logged, context, startup_error, ConcVars >>

\* lines 95-117: call_tool returned
InvokeOk ==
    /\ pc = "loop"
    /\ Current.type = "tool_use"
    /\ \E p \in Payloads :
          messages' = messages \o
              << AssistantRef, UserBlocks(<< ToolResultBlock(Current.id, p) >>) >>
    /\ final_text' = Append(final_text, ToolMarker(Current.name, Current.input))
    /\ assistant_content' = Append(assistant_content, Current)
    /\ Log(Call("call_tool", "ok", Current, << >>, << >>, << >>, NoRaise))
    /\ pc' = "followup"
    /\ UNCHANGED << query, terminal, handlerRaised,
                    open, acq, rel, available_tools,
                    content_iter, idx, response, result, raised, failedOp, http >>
    /\ UNCHANGED << logged, context, startup_error, ConcVars >>

\* Variant: the failure of call_tool leaves the loop and the async-with body.
InvokeFailPropagates ==
    /\ pc = "loop"
    /\ Current.type = "tool_use"
    /\ \E r \in ToolFaults :
          /\ Fail("call_tool", r)
          /\ Log(Call("call_tool", "error", Current, << >>, << >>, << >>, r))
    /\ UNCHANGED << query, handlerRaised, LoopVars, result, http >>

\* Variant: the note is added and the loop over the blocks ends (break).
InvokeFailBreaks ==
    /\ pc = "loop"
    /\ Current.type = "tool_use"
    /\ \E r \in ToolFaults :
          /\ final_text' = Append(final_text, ErrorNote(Current.name, r))
          /\ Log(Call("call_tool", "error", Current, << >>, << >>, << >>, r))
    /\ idx' = Len(content_iter) + 1
    /\ pc' = "closing"
    /\ UNCHANGED << query, terminal, handlerRaised, open, acq, rel,
                    available_tools, messages, assistant_content, content_iter,
                    response, result, raised, failedOp, http >>
    /\ UNCHANGED << logged, context, startup_error, ConcVars >>

\* Variant: the request block is stored before call_tool is awaited.
InvokeFailKeepsRequest ==
    /\ pc = "loop"
    /\ Current.type = "tool_use"
    /\ \E r \in ToolFaults :
          /\ final_text' = Append(final_text, ErrorNote(Current.name, r))
          /\ Log(Call("call_tool", "error", Current, << >>, << >>, << >>, r))
    /\ assistant_content' = Append(assistant_content, Current)
    /\ idx' = idx + 1
    /\ pc' = AfterBlock(idx, content_iter)
    /\ UNCHANGED << query, terminal, handlerRaised,
                    open, acq, rel, available_tools, messages,
                    content_iter, response, result, raised,
                    failedOp, http >>
    /\ UNCHANGED << logged, context, startup_error, ConcVars >>

\* lines 131-136 after call_tool raised
InvokeFail ==
    /\ pc = "loop"
    /\ Current.type = "tool_use"
    /\ \E r \in ToolFaults :
          /\ final_text' = Append(final_text, ErrorNote(Current.name, r))
          /\ Log(Call("call_tool", "error", Current, << >>, << >>, << >>, r))
    /\ idx' = idx + 1
    /\ pc' = AfterBlock(idx, content_iter)
    /\ UNCHANGED << query, terminal, handlerRaised,
                    open, acq, rel, available_tools, messages,
                    assistant_content, content_iter, response, result, raised,
                    failedOp, http >>
    /\ UNCHANGED << logged, context, startup_error, ConcVars >>

\* Variant: the tool requests of the follow-up response are invoked too.
FollowUpOkScanned ==
    /\ pc = "followup"
    /\ \E resp \in FollowUpResponses :
          /\ response' = resp
          /\ final_text' = final_text \o TextsOf(resp)
          /\ calls' = calls
                \o << Call("complete", "ok", Current, Transcript, available_tools,
                           resp, NoRaise) >>
                \o [k \in 1..Len(SelectSeq(resp, LAMBDA b : b.type = "tool_use")) |->
                      Call("call_tool", "ok",
                           SelectSeq(resp, LAMBDA b : b.type = "tool_use")[k],
                           << >>, << >>, << >>, NoRaise)]
    /\ idx' = idx + 1
    /\ pc' = AfterBlock(idx, content_iter)
    /\ UNCHANGED << query, terminal, handlerRaised,
                    open, acq, rel, available_tools, messages,
                    assistant_content, content_iter, result, raised, failedOp, http >>
    /\ UNCHANGED << logged, context, startup_error, ConcVars >>

\* Variant: a follow-up response that holds a tool request is scanned as the
\* next round of the loop.
FollowUpOkNextRound ==
    /\ pc = "followup"
    /\ \E resp \in FollowUpResponses :
          /\ response' = resp
          /\ Log(Call("complete", "ok", Current, Transcript, available_tools, resp,
                      NoRaise))
          /\ IF \E k \in 1..Len(resp) : resp[k].type = "tool_use"
             THEN /\ content_iter' = resp
                  /\ idx' = 1
                  /\ pc' = "loop"
                  /\ UNCHANGED final_text
             ELSE /\ final_text' = final_text \o TextsOf(resp)
                  /\ idx' = idx + 1
                  /\ pc' = AfterBlock(idx, content_iter)
                  /\ UNCHANGED content_iter
    /\ UNCHANGED << query, terminal, handlerRaised,
                    open, acq, rel, available_tools, messages,
                    assistant_content, result, raised, failedOp, http >>
    /\ UNCHANGED << logged, context, startup_error, ConcVars >>

\* lines 120-129
FollowUpOk ==
    /\ pc = "followup"
    /\ \E resp \in FollowUpResponses :
          /\ response' = resp
          /\ final_text' = final_text \o TextsOf(resp)
          /\ Log(Call("complete", "ok", Current, Transcript, available_tools, resp,
                      NoRaise))
    /\ idx' = idx + 1
    /\ pc' = AfterBlock(idx, content_iter)
    /\ UNCHANGED << query, terminal, handlerRaised,
                    open, acq, rel, available_tools, messages,
                    assistant_content, content_iter, result, raised, failedOp, http >>
    /\ UNCHANGED << logged, context, startup_error, ConcVars >>

\* lines 120-125 raise inside the try of line 93: caught at line 131
FollowUpFail ==
    /\ pc = "followup"
    /\ \E r \in CompletionFaults :
          /\ final_text' = Append(final_text, ErrorNote(Current.name, r))
          /\ Log(Call("complete", "error", Current, Transcript, available_tools,
                      << >>, r))
    /\ idx' = idx + 1
    /\ pc' = AfterBlock(idx, content_iter)
    /\ UNCHANGED << query, terminal, handlerRaised,
                    open, acq, rel, available_tools, messages,
                    assistant_content, content_iter, response, result, raised,
                    failedOp, http >>
    /\ UNCHANGED << logged, context, startup_error, ConcVars >>

\* the async-with blocks exit normally, then line 139 returns
CloseOk ==
    /\ pc = "closing"
    /\ Unwind
    /\ Log(Plain("close", "ok", NoRaise))
    /\ result' = Join(final_text)
    /\ pc' = "Done"
    /\ terminal' = "Done"
    /\ UNCHANGED << query, handlerRaised,
                    LoopVars, raised, failedOp, http >>
    /\ UNCHANGED << logged, context, startup_error, ConcVars >>

\* an exit of a context manager raises
CloseFail ==
    /\ pc = "closing"
    /\ \E r \in CloseFaults :
          /\ Fail("close", r)
          /\ Log(Plain("close", "error", r))
    /\ UNCHANGED << query, handlerRaised,
                    LoopVars, result, http >>

\* CancelledError is delivered at an await; it is not an Exception, so
\* neither line 131 nor line 141 catches it, and neither does handle_query.
AtAwait ==
    \/ pc \in {"open", "enter", "init", "list", "closing"}
    \/ pc = "loop" /\ Current.type = "tool_use"

AwaitedOp ==
    CASE pc = "open" -> "open" [] pc = "enter" -> "enter"
      [] pc = "init" -> "initialize" [] pc = "list" -> "list_tools"
      [] pc = "closing" -> "close" [] OTHER -> "call_tool"

Cancel ==
    /\ AtAwait
    /\ Unwind
    /\ Log(Call(AwaitedOp, "cancelled",
                IF pc = "loop" THEN Current ELSE NoBlock, << >>, << >>, << >>,
                NoRaise))
    /\ failedOp' = "cancel"
    /\ pc' = "Cancelled"
    /\ terminal' = "Cancelled"
    /\ UNCHANGED << query, handlerRaised,
                    LoopVars, result, raised, http >>
    /\ UNCHANGED << logged, context, startup_error, ConcVars >>

\* ---- handle_query exit (main.py 72-84) ---------------------------------
Respond200 ==
    /\ pc = "Done"
    /\ http' = Append(http, Reply(200, "response", result))
    /\ pc' = "responded"
    /\ UNCHANGED << query, terminal, handlerRaised,
                    open, acq, rel, LoopVars, result, raised,
                    failedOp, calls >>
    /\ UNCHANGED << logged, context, startup_error, ConcVars >>

\* Variant: the RuntimeError of the core is caught by the general handler.
Respond500As400 ==
    /\ pc = "Failed"
    /\ http' = Append(http, Reply(400, "detail", Str(raised)))
    /\ pc' = "responded"
    /\ UNCHANGED << query, terminal, handlerRaised, open, acq, rel,
                    LoopVars, result, raised, failedOp, calls >>
    /\ UNCHANGED << logged, context, startup_error, ConcVars >>

\* except RuntimeError (lines 76-79)
Respond500 ==
    /\ pc = "Failed"
    /\ http' = Append(http, Reply(500, "detail", Str(raised)))
    /\ pc' = "responded"
    /\ UNCHANGED << query, terminal, handlerRaised,
                    open, acq, rel, LoopVars, result, raised,
                    failedOp, calls >>
    /\ UNCHANGED << logged, context, startup_error, ConcVars >>

\* except Exception (lines 81-84): a fault of the handler itself (line 72)
Respond400 ==
    /\ pc = "Done"
    /\ \E r \in ShellFaults :
          /\ handlerRaised' = r
          /\ http' = Append(http, Reply(400, "detail", Str(r)))
    /\ pc' = "responded"
    /\ UNCHANGED << query, open, acq, rel, LoopVars, result, raised,
                    failedOp, terminal, calls >>
    /\ UNCHANGED << logged, context, startup_error, ConcVars >>

\* ---- requests in flight together (main.py 10, 59-74; client.py 40-139) --
\* Each request is a task running handle_query and process_query on the one
\* mcp_client object; tasks take turns at their awaits, and the statements
\* between two awaits, the messages.create calls included, run as one step.
Tasks == { "t1", "t2" }

\* the places variables can live in: the frame of a task's process_query
\* call, or the attributes of the shared MCPClient object
Slots == Tasks \cup { "self" }

ConcQueries == { "Book a flight", "What time is it?" }

ConcFirstResponses ==
    { << TextBlock("I will book your flight.") >>,
      << TextBlock("I will book your flight."),
         ToolUseBlock("get_time", "{}", "id2"),
         TextBlock("Done.") >>,
      << ToolUseBlock("book_flight", "{'dest': 'SFO'}", "id1"),
         ToolUseBlock("get_time", "{}", "id2") >> }

ConcFollowUps == { << TextBlock("Your flight is booked.") >> }

EmptyFrame ==
    [available_tools |-> << >>, messages |-> << >>, assistant_content |-> << >>,
     final_text |-> << >>, response |-> << >>, session |-> 0]

\* what the services answered to one request so far
NoScript == [listed |-> FALSE, catalog |-> << >>, first |-> << >>, outs |-> << >>]

NoTask ==
    [pc |-> "idle", query |-> "", content_iter |-> << >>, idx |-> 0,
     owned |-> 0, used |-> {}, script |-> NoScript, result |-> "",
     raised |-> NoRaise]

\* the outcome of one call_tool and of the follow-up call made after it
InvokeReturned(p, fu_ok, resp, fu_exc) ==
    [ok |-> TRUE, payload |-> p, exc |-> NoRaise,
     fu_ok |-> fu_ok, resp |-> resp, fu_exc |-> fu_exc]

InvokeRaised(r) ==
    [ok |-> FALSE, payload |-> "", exc |-> r,
     fu_ok |-> FALSE, resp |-> << >>, fu_exc |-> NoRaise]

\* Variant: the locals are kept as attributes of the shared client object.
SlotShared(t) == "self"

\* process_query's variables are locals of the call's own frame
Slot(t) == t

\* lines 67-78: the locals after list_tools and the first messages.create
StartBody(fr, q, cat, first) ==
    [fr EXCEPT !.available_tools = cat, !.messages = << UserText(q) >>,
               !.assistant_content = << >>, !.final_text = << >>,
               !.response = first]

\* lines 81-91: the loop runs on from block i up to the next tool_use block,
\* where call_tool is awaited, or to the end of the blocks
RECURSIVE Scan(_, _, _)
Scan(fr, bs, i) ==
    IF i > Len(bs) \/ bs[i].type = "tool_use" THEN [frame |-> fr, idx |-> i]
    ELSE IF bs[i].type = "text"
         THEN Scan([fr EXCEPT !.final_text = Append(@, bs[i].text),
                              !.assistant_content = Append(@, bs[i])], bs, i + 1)
         ELSE Scan(fr, bs, i + 1)

\* lines 95-136 for tool_use block b, given what the two calls did
AfterInvoke(fr, b, o) ==
    IF ~o.ok
    THEN [fr EXCEPT !.final_text = Append(@, ErrorNote(b.name, o.exc))]
    ELSE LET f1 == [fr EXCEPT
                      !.final_text = Append(@, ToolMarker(b.name, b.input)),
                      !.assistant_content = Append(@, b),
                      !.messages = @ \o
                          << AssistantRef,
                             UserBlocks(<< ToolResultBlock(b.id, o.payload) >>) >>]
         IN  IF o.fu_ok
             THEN [f1 EXCEPT !.response = o.resp,
                             !.final_text = @ \o TextsOf(o.resp)]
             ELSE [f1 EXCEPT !.final_text = Append(@, ErrorNote(b.name, o.fu_exc))]

ConcPcAfter(i, bs) == IF i > Len(bs) THEN "closing" ELSE "invoke"

\* the variables of the one-request model play no part here
ConcFrame == UNCHANGED SeqVars

\* main.py 59-71, client.py 45: the request starts process_query
ConcReceive(t) ==
    /\ task[t].pc = "idle"
    /\ \E q \in ConcQueries :
          task' = [task EXCEPT ![t].pc = "open", ![t].query = q]
    /\ UNCHANGED << frame, sessions, handles >>
    /\ ConcFrame

\* line 46
ConcOpen(t) ==
    /\ task[t].pc = "open"
    /\ task' = [task EXCEPT ![t].pc = "enter"]
    /\ UNCHANGED << frame, sessions, handles >>
    /\ ConcFrame

ConcOpenFail(t) ==
    /\ task[t].pc = "open"
    /\ \E r \in TransportFaults :
          task' = [task EXCEPT ![t].pc = "Failed", ![t].raised = QueryError(r)]
    /\ UNCHANGED << frame, sessions, handles >>
    /\ ConcFrame

\* line 47: a new ClientSession is created, entered and bound to `session`
ConcEnter(t) ==
    /\ task[t].pc = "enter"
    /\ handles' = handles + 1
    /\ sessions' = sessions \cup { handles + 1 }
    /\ frame' = [frame EXCEPT ![Slot(t)].session = handles + 1]
    /\ task' = [task EXCEPT ![t].pc = "init", ![t].owned = handles + 1]
    /\ ConcFrame

\* line 48
ConcInitialize(t) ==
    /\ task[t].pc = "init"
    /\ task' = [task EXCEPT ![t].pc = "list",
                            ![t].used = @ \cup { frame[Slot(t)].session }]
    /\ UNCHANGED << frame, sessions, handles >>
    /\ ConcFrame

\* lines 52-91: list_tools returns, the first messages.create is made and the
\* loop runs up to the first await of call_tool
ConcList(t) ==
    /\ task[t].pc = "list"
    /\ \E cat \in Catalogs, first \in ConcFirstResponses :
          LET st == Scan(StartBody(frame[Slot(t)], task[t].query, cat, first),
                         first, 1)
          IN  /\ frame' = [frame EXCEPT ![Slot(t)] = st.frame]
              /\ task' = [task EXCEPT
                            ![t].pc = ConcPcAfter(st.idx, first),
                            ![t].content_iter = first,
                            ![t].idx = st.idx,
                            ![t].used = @ \cup { frame[Slot(t)].session },
                            ![t].script = [listed |-> TRUE, catalog |-> cat,
                                           first |-> first, outs |-> << >>]]
    /\ UNCHANGED << sessions, handles >>
    /\ ConcFrame

\* the step from the return or failure of call_tool to the next await
ConcAfterInvoke(t, o) ==
    LET bs == task[t].content_iter
        st == Scan(AfterInvoke(frame[Slot(t)], bs[task[t].idx], o),
                   bs, task[t].idx + 1)
    IN  /\ frame' = [frame EXCEPT ![Slot(t)] = st.frame]
        /\ task' = [task EXCEPT
                      ![t].pc = ConcPcAfter(st.idx, bs),
                      ![t].idx = st.idx,
                      ![t].used = @ \cup { frame[Slot(t)].session },
                      ![t].script.outs = Append(@, o)]
        /\ UNCHANGED << sessions, handles >>
        /\ ConcFrame

\* lines 95-129, then the loop up to the next await
ConcInvokeOk(t) ==
    /\ task[t].pc = "invoke"
    /\ \E p \in Payloads :
          \/ \E resp \in ConcFollowUps :
                ConcAfterInvoke(t, InvokeReturned(p, TRUE, resp, NoRaise))
          \/ \E r \in CompletionFaults :
                ConcAfterInvoke(t, InvokeReturned(p, FALSE, << >>, r))

\* lines 95, 131-136, then the loop up to the next await
ConcInvokeFail(t) ==
    /\ task[t].pc = "invoke"
    /\ \E r \in ToolFaults : ConcAfterInvoke(t, InvokeRaised(r))

\* the async-with blocks exit the task's own context managers; line 139
ConcClose(t) ==
    /\ task[t].pc = "closing"
    /\ sessions' = sessions \ { task[t].owned }
    /\ task' = [task EXCEPT ![t].pc = "Done",
                            ![t].result = Join(frame[Slot(t)].final_text)]
    /\ UNCHANGED << frame, handles >>
    /\ ConcFrame

ConcNext ==
    \E t \in Tasks :
        \/ ConcReceive(t)
        \/ ConcOpen(t) \/ ConcOpenFail(t)
        \/ ConcEnter(t)
        \/ ConcInitialize(t)
        \/ ConcList(t)
        \/ ConcInvokeOk(t) \/ ConcInvokeFail(t)
        \/ ConcClose(t)

\* ---- specification -----------------------------------------------------
Init ==
    /\ pc = "probe_open"
    /\ query = ""
    /\ open = {}
    /\ acq = [r \in Resources |-> 0]
    /\ rel = [r \in Resources |-> 0]
    /\ available_tools = << >>
    /\ messages = << >>
    /\ assistant_content = << >>
    /\ final_text = << >>
    /\ content_iter = << >>
    /\ idx = 0
    /\ response = << >>
    /\ result = ""
    /\ raised = NoRaise
    /\ failedOp = "none"
    /\ terminal = "none"
    /\ handlerRaised = NoRaise
    /\ calls = << >>
    /\ http = << >>
    /\ logged = << >>
    /\ context = NoRaise
    /\ startup_error = NoStartupError
    /\ task = [t \in Tasks |-> NoTask]
    /\ frame = [s \in Slots |-> EmptyFrame]
    /\ sessions = {}
    /\ handles = 0

Next ==
    \/ ProbeOpenOk \/ ProbeOpenFail
    \/ ProbeEnterOk \/ ProbeEnterFail
    \/ ProbeInitOk \/ ProbeInitFail
    \/ ProbeListOk \/ ProbeListFail
    \/ ProbeCloseOk \/ ProbeCloseFail
    \/ Receive \/ HandlerFault
    \/ OpenOk \/ OpenFail
    \/ EnterOk \/ EnterFail
    \/ InitOk \/ InitFail
    \/ ListOk \/ ListFail
    \/ CompleteOk \/ CompleteFail
    \/ ProcessText \/ SkipBlock
    \/ InvokeOk \/ InvokeFail
    \/ FollowUpOk \/ FollowUpFail
    \/ CloseOk \/ CloseFail
    \/ Cancel
    \/ Respond200 \/ Respond500 \/ Respond400

Spec == Init /\ [][Next]_vars

\* Requests in flight together on the one client object.
ConcSpec == Init /\ [][ConcNext]_vars

\* Every external call returns or fails (no cancellation), and a call that
\* was started is eventually answered.
NextReturning ==
    \/ ProbeOpenOk \/ ProbeOpenFail
    \/ ProbeEnterOk \/ ProbeEnterFail
    \/ ProbeInitOk \/ ProbeInitFail
    \/ ProbeListOk \/ ProbeListFail
    \/ ProbeCloseOk \/ ProbeCloseFail
    \/ Receive \/ HandlerFault
    \/ OpenOk \/ OpenFail
    \/ EnterOk \/ EnterFail
    \/ InitOk \/ InitFail
    \/ ListOk \/ ListFail
    \/ CompleteOk \/ CompleteFail
    \/ ProcessText \/ SkipBlock
    \/ InvokeOk \/ InvokeFail
    \/ FollowUpOk \/ FollowUpFail
    \/ CloseOk \/ CloseFail
    \/ Respond200 \/ Respond500 \/ Respond400

FairSpec == Init /\ [][NextReturning]_vars /\ WF_vars(NextReturning)

InQuery == pc \in {"open", "enter", "init", "list", "complete", "loop",
                   "followup", "closing"}

\* ---- reading the call log ----------------------------------------------
InvokeCalls == SelectSeq(calls, LAMBDA c : c.op = "call_tool")
CompleteCalls == SelectSeq(calls, LAMBDA c : c.op = "complete")
FollowUpCalls == SelectSeq(calls, LAMBDA c : c.op = "complete" /\ c.tool # NoBlock)
OkCalls(cs) == SelectSeq(cs, LAMBDA c : c.outcome = "ok")
ToolsOf(cs) == [k \in 1..Len(cs) |-> cs[k].tool]
ToolUses(bs) == SelectSeq(bs, LAMBDA b : b.type = "tool_use")

\* the first response has been received / its blocks have all been handled
FirstResponseSeen == idx >= 1
LoopFinished == idx >= 1 /\ idx > Len(content_iter)

\* position in the log of the call_tool made for block i of the first response
ToolOrd(i) == Cardinality({ j \in 1..i : content_iter[j].type = "tool_use" })
CallPos(k) ==
    CHOOSE p \in 1..Len(calls) :
        /\ calls[p].op = "call_tool"
        /\ Cardinality({ q \in 1..p : calls[q].op = "call_tool" }) = k
InvokeOf(i) == calls[CallPos(ToolOrd(i))]
FollowUpOf(i) == calls[CallPos(ToolOrd(i)) + 1]
InvokeFailedAt(i) ==
    content_iter[i].type = "tool_use" /\ InvokeOf(i).outcome = "error"

\* the answer fragments block i of the first response gives rise to
Pieces(i) ==
    LET b == content_iter[i] IN
    IF b.type = "text" THEN << b.text >>
    ELSE IF b.type # "tool_use" THEN << >>
    ELSE IF InvokeOf(i).outcome = "error"
         THEN << ErrorNote(b.name, InvokeOf(i).exc) >>
    ELSE << ToolMarker(b.name, b.input) >> \o
         (IF FollowUpOf(i).outcome = "ok" THEN TextsOf(FollowUpOf(i).resp)
          ELSE << ErrorNote(b.name, FollowUpOf(i).exc) >>)

RECURSIVE PiecesOf(_, _)
PiecesOf(lo, hi) == IF lo > hi THEN << >> ELSE Pieces(lo) \o PiecesOf(lo + 1, hi)

\* ---- claims ------------------------------------------------------------

\* C1: a failing call_tool never fails the query: the query goes on with the
\* next block, the call that fails a query is never a call_tool, and the
\* answer of a finished query is the fragments of the blocks before the
\* failed one, one error note naming the failed tool, and the fragments of
\* the blocks after it.
C1_ToolFailureIsolated ==
    /\ \A p \in 1..Len(calls) :
          (calls[p].op = "call_tool" /\ calls[p].outcome = "error") =>
              /\ failedOp # "call_tool"
              /\ p = Len(calls) => (terminal = "none" /\ pc \in {"loop", "closing"})
    /\ terminal = "Done" =>
          \A i \in 1..Len(content_iter) :
              InvokeFailedAt(i) =>
                  /\ final_text =
                        PiecesOf(1, i - 1)
                        \o << ErrorNote(content_iter[i].name, InvokeOf(i).exc) >>
                        \o PiecesOf(i + 1, Len(content_iter))
                  /\ result = Join(final_text)

C1_Witness ==
    /\ terminal = "Done"
    /\ Len(content_iter) = 3
    /\ content_iter[1].type = "text"
    /\ InvokeFailedAt(2)
    /\ content_iter[3].type = "tool_use"
    /\ InvokeOf(3).outcome = "ok"

\* C2: each context manager is entered at most once per query and exited
\* exactly once if entered; when process_query has returned or raised (also
\* by cancellation) nothing is left open, so the number of open resources
\* is back at its value before the query.
C2_SessionReleasedOnce ==
    /\ \A r \in Resources :
          /\ acq[r] <= 1
          /\ rel[r] <= acq[r]
          /\ (r \in open) <=> (rel[r] < acq[r])
    /\ pc \in {"idle", "Done", "Failed", "Cancelled", "responded"} =>
          /\ open = {}
          /\ \A r \in Resources : rel[r] = acq[r]

C2_Witness ==
    /\ pc = "Failed"
    /\ failedOp = "complete"
    /\ \A r \in Resources : acq[r] = 1 /\ rel[r] = 1

\* C3 as stated: once the blocks of the first response are handled,
\* call_tool was called once per tool request, in block order, and as many
\* follow-up completion calls were made as there are tool requests.
C3_Original ==
    LoopFinished =>
        /\ ToolsOf(InvokeCalls) = ToolUses(content_iter)
        /\ Len(FollowUpCalls) = Len(ToolUses(content_iter))

\* C3 amended: once the blocks of the first response are handled, call_tool
\* was called once per tool request, in block order, and one follow-up
\* completion call was made for each call_tool that returned, in the same
\* order; a failed call_tool has no follow-up call.
C3_InvokePerBlock ==
    LoopFinished =>
        /\ ToolsOf(InvokeCalls) = ToolUses(content_iter)
        /\ ToolsOf(FollowUpCalls) = ToolsOf(OkCalls(InvokeCalls))

C3_Witness ==
    /\ LoopFinished
    /\ Len(InvokeCalls) = 3
    /\ Len(FollowUpCalls) = 2
    /\ content_iter[1].name # content_iter[2].name

\* C4: a first response without tool requests leads to no call_tool and to
\* exactly one completion call, and the result is the newline-join of its
\* text blocks in order.
C4_NoToolRequests ==
    (FirstResponseSeen /\ ToolUses(content_iter) = << >>) =>
        /\ InvokeCalls = << >>
        /\ Len(CompleteCalls) = 1
        /\ terminal = "Done" => result = Join(TextsOf(content_iter))

C4_Witness ==
    /\ terminal = "Done"
    /\ content_iter = << TextBlock("A"), OtherBlock, TextBlock("B") >>
    /\ result = "A\nB"

\* C5 as stated: every failed completion call (the first one or a follow-up
\* one) and every failed tool listing puts the query in Failed.
C5_Claim ==
    \A p \in 1..Len(calls) :
        (calls[p].op \in {"complete", "list_tools"} /\ calls[p].outcome = "error")
            => terminal = "Failed"

\* C6: when entering the transport, entering the session or the handshake
\* fails, the query is Failed, no completion call and no call_tool is ever
\* made for it, and the response to the caller is a 500.
C6_SessionFailureFails ==
    \A p \in 1..Len(calls) :
        (calls[p].op \in {"open", "enter", "initialize"} /\ calls[p].outcome = "error")
            => /\ terminal = "Failed"
               /\ pc \in {"Failed", "responded"}
               /\ CompleteCalls = << >>
               /\ InvokeCalls = << >>
               /\ pc = "responded" => (Len(http) = 1 /\ http[1].status = 500)

C6_Witness ==
    /\ pc = "responded"
    /\ failedOp = "initialize"
    /\ http[1].status = 500

\* C7: a request gets at most one response, and exactly one once the handler
\* has finished: 400 with the fault's text when a statement of the handler
\* itself faulted, 500 with the text of the core's RuntimeError when the
\* query Failed, and otherwise 200 with the result of the Done query.
C7_OneResponse ==
    /\ Len(http) <= 1
    /\ (pc = "responded") <=> (Len(http) = 1)
    /\ pc = "responded" =>
          IF handlerRaised # NoRaise
          THEN http[1] = Reply(400, "detail", Str(handlerRaised))
          ELSE IF terminal = "Failed"
          THEN /\ http[1] = Reply(500, "detail", Str(raised))
               /\ raised.exceptions[1].type = "RuntimeError"
          ELSE /\ terminal = "Done"
               /\ http[1] = Reply(200, "response", result)

C7_Witness ==
    /\ pc = "responded"
    /\ terminal = "Failed"
    /\ failedOp = "complete"
    /\ http = << Reply(500, "detail",
                       "Error processing query via MCP:  (1 sub-exception)") >>

\* C8: when every call returns or fails, a query that has started ends in
\* Done or in Failed; it ends in Done exactly when no fault left the body
\* and then nothing is raised, in Failed exactly when one did and then
\* nothing is returned; a terminal state, once reached, is kept.
C8_ExactlyOneTerminal ==
    /\ InQuery ~> (terminal \in {"Done", "Failed"})
    /\ [](InQuery => terminal = "none")
    /\ [](pc \in {"Done", "Failed"} => terminal = pc)
    /\ [](terminal = "Done" => (failedOp = "none" /\ raised = NoRaise))
    /\ [](terminal = "Failed" => (failedOp # "none" /\ raised # NoRaise /\ result = ""))
    /\ [][(pc \in {"Done", "Failed"}) => (terminal' = terminal)]_vars

C8_Witness ==
    /\ terminal = "Failed"
    /\ failedOp = "close"
    /\ Len(InvokeCalls) = 2

\* C9 as stated: a query is Done only when the last response received from
\* the model holds no tool request.
C9_Original ==
    terminal = "Done" =>
        /\ ToolUses(response) = << >>
        /\ ToolUses(CompleteCalls[Len(CompleteCalls)].resp) = << >>

\* C9 amended: each call_tool that returns is directly followed by one
\* completion call for the same request, given a transcript two turns longer
\* than the one of the completion call before it and ending with the tool
\* result; no other follow-up call exists, none is made after the last
\* block, and Done is reached when all blocks of the first response are
\* handled, whatever the responses contain.
C9_FollowUpPerInvoke ==
    /\ \A p \in 1..Len(calls) :
          (calls[p].op = "call_tool" /\ calls[p].outcome = "ok") =>
              IF p = Len(calls) THEN pc = "followup"
              ELSE LET f == calls[p + 1]
                       n == Len(f.transcript)
                   IN  /\ f.op = "complete"
                       /\ f.tool = calls[p].tool
                       /\ n = 1 + 2 * Cardinality({ q \in 1..p :
                                 calls[q].op = "call_tool" /\ calls[q].outcome = "ok" })
                       /\ f.transcript[n].blocks[1].type = "tool_result"
                       /\ f.transcript[n].blocks[1].id = calls[p].tool.id
    /\ \A p \in 1..Len(calls) :
          (calls[p].op = "complete" /\ calls[p].tool # NoBlock) =>
              /\ p > 1
              /\ calls[p - 1].op = "call_tool"
              /\ calls[p - 1].outcome = "ok"
    /\ terminal = "Done" =>
          /\ LoopFinished
          /\ calls[Len(calls)].op = "close"
          /\ Len(CompleteCalls) = 1 + Len(OkCalls(InvokeCalls))

C9_Witness ==
    /\ terminal = "Done"
    /\ ToolUses(response) # << >>
    /\ Len(FollowUpCalls) = 2

\* C10 as stated: within one query every step leaves the transcript as it
\* was or extends it at the end.
C10_Claim ==
    [][~AtRest => IsPrefix(Transcript, Transcript')]_vars

\* what leaves the async-with body when call c raises exception c.exc
Escaping(c) == IF c.op = "list_tools" THEN ListRaise(c.exc) ELSE c.exc

\* the members of the group the except* clause of line 141 receives
CausesOf(c) == AsGroup(Escaping(c)).exceptions

\* C12: once process_query has raised, the except* loop has printed every
\* member of the group that left the body, one entry per member; what is
\* raised is one bare RuntimeError, different from every member; its
\* __context__ is the group holding all the members, and its text carries the
\* group's message and the number of members. Nothing is printed while the
\* query has not failed.
C12_CausesLoggedAndWrapped ==
    /\ terminal = "Failed" =>
          LET c == calls[Len(calls)] IN
          /\ c.outcome = "error"
          /\ logged = CausesOf(c)
          /\ context.group
          /\ context.exceptions = CausesOf(c)
          /\ ~raised.group
          /\ Len(raised.exceptions) = 1
          /\ raised.exceptions[1].type = "RuntimeError"
          /\ raised.exceptions[1].text =
                "Error processing query via MCP: " \o Str(context)
          /\ \A k \in 1..Len(CausesOf(c)) : CausesOf(c)[k] # raised.exceptions[1]
    /\ terminal # "Failed" => (logged = << >> /\ context = NoRaise)

C12_Witness ==
    /\ terminal = "Failed"
    /\ Len(logged) = 2
    /\ logged[1].type = "ConnectError"
    /\ logged[2].type = "McpError"
    /\ Len(context.exceptions) = 2

\* every string a turn of a transcript carries
StringsOf(turn) ==
    { turn.text } \cup { turn.blocks[k].text : k \in 1..Len(turn.blocks) }
                  \cup { turn.blocks[k].content : k \in 1..Len(turn.blocks) }

\* the markers (line 99) and error notes (line 135) written so far
Markers ==
    { ToolMarker(calls[p].tool.name, calls[p].tool.input) :
        p \in { q \in 1..Len(calls) :
                  calls[q].op = "call_tool" /\ calls[q].outcome = "ok" } }

ErrorNotes ==
    { ErrorNote(calls[p].tool.name, calls[p].exc) :
        p \in { q \in 1..Len(calls) :
                  calls[q].tool # NoBlock /\ calls[q].outcome = "error" } }

\* the transcripts given to the completion calls, and the current one
SentTranscripts ==
    { calls[p].transcript : p \in { q \in 1..Len(calls) : calls[q].op = "complete" } }
    \cup { Transcript }

\* C13: when a query is finished, for every tool_use block whose call_tool
\* and follow-up call succeeded the answer is: the fragments of the blocks
\* before it, the marker naming the tool and its arguments, the text blocks
\* of the follow-up response, the fragments of the blocks after it. At any
\* time every marker and error note written so far is in final_text, and no
\* turn of any transcript given to a completion call carries one of them.
C13_ResultOrderAndNotesLocal ==
    /\ terminal = "Done" =>
          \A i \in 1..Len(content_iter) :
              ( /\ content_iter[i].type = "tool_use"
                /\ InvokeOf(i).outcome = "ok"
                /\ FollowUpOf(i).outcome = "ok" ) =>
                  /\ final_text =
                        PiecesOf(1, i - 1)
                        \o << ToolMarker(content_iter[i].name, content_iter[i].input) >>
                        \o TextsOf(FollowUpOf(i).resp)
                        \o PiecesOf(i + 1, Len(content_iter))
                  /\ result = Join(final_text)
    /\ \A n \in Markers \cup ErrorNotes :
          /\ \E k \in 1..Len(final_text) : final_text[k] = n
          /\ \A tr \in SentTranscripts :
                \A k \in 1..Len(tr) : n \notin StringsOf(tr[k])

C13_Witness ==
    /\ terminal = "Done"
    /\ Len(content_iter) = 3
    /\ content_iter[1].type = "text"
    /\ content_iter[2].type = "tool_use"
    /\ content_iter[3].type = "text"
    /\ InvokeOf(2).outcome = "ok"
    /\ FollowUpOf(2).outcome = "ok"
    /\ Len(final_text) = 4
    /\ Markers # {}

\* positions in the log of the calls of one kind
PosOf(op) == { p \in 1..Len(calls) : calls[p].op = op }

\* C15: a query calls list_tools at most once, after initialize has returned
\* and before any completion call; a query that got to its first completion
\* call has listed exactly once, successfully; and every completion call of
\* the query, first or follow-up, is given exactly the sequence of tools that
\* this query's own list_tools call returned.
C15_CatalogListedOncePerQuery ==
    /\ Cardinality(PosOf("list_tools")) <= 1
    /\ \A p \in PosOf("list_tools") :
          /\ \E q \in PosOf("initialize") : q < p /\ calls[q].outcome = "ok"
          /\ \A q \in PosOf("complete") : p < q
    /\ \A q \in PosOf("complete") :
          /\ Cardinality(PosOf("list_tools")) = 1
          /\ \A p \in PosOf("list_tools") :
                /\ calls[p].outcome = "ok"
                /\ calls[q].tools = calls[p].tools
    /\ pc \in {"complete", "loop", "followup", "closing"} =>
          \A p \in PosOf("list_tools") : available_tools = calls[p].tools

C15_Witness ==
    /\ terminal = "Done"
    /\ Cardinality(PosOf("complete")) = 3
    /\ Cardinality(PosOf("list_tools")) = 1
    /\ \A q \in PosOf("complete") : calls[q].tools = << "get_time", "book_flight" >>

\* the tool_use blocks the follow-up responses of this query contained
FollowUpToolUses ==
    UNION { { FollowUpCalls[k].resp[j] :
                j \in { i \in 1..Len(FollowUpCalls[k].resp) :
                          FollowUpCalls[k].resp[i].type = "tool_use" } } :
            k \in 1..Len(FollowUpCalls) }

\* C16: the loop iterates the blocks of the first response only: the tools
\* invoked are, in order, a prefix of the tool_use blocks of the first
\* response; no call_tool and no completion call is made for a tool_use block
\* that came in a follow-up response; there are never more follow-up calls
\* than successful invocations, and never more than 1 + N completion calls,
\* N being the number of tool_use blocks of the first response.
C16_FollowUpNotScanned ==
    /\ IsPrefix(ToolsOf(InvokeCalls), ToolUses(content_iter))
    /\ FirstResponseSeen => content_iter = CompleteCalls[1].resp
    /\ \A p \in PosOf("call_tool") \cup PosOf("complete") :
          calls[p].tool \notin FollowUpToolUses
    /\ Len(FollowUpCalls) <= Len(OkCalls(InvokeCalls))
    /\ Len(OkCalls(InvokeCalls)) <= Len(FollowUpCalls) + 1
    /\ Len(CompleteCalls) <= 1 + Len(ToolUses(content_iter))

C16_Witness ==
    /\ terminal = "Done"
    /\ FollowUpToolUses # {}
    /\ Len(InvokeCalls) = 1
    /\ Len(CompleteCalls) = 2
    /\ Len(content_iter) = 1

\* every response the model has returned to this query holds a tool request,
\* and no call of the query has failed
AlwaysRequests ==
    /\ FirstResponseSeen
    /\ \A k \in 1..Len(CompleteCalls) : ToolUses(CompleteCalls[k].resp) # << >>
    /\ \A p \in 1..Len(calls) : calls[p].outcome = "ok"

\* C17 as stated: a query whose model asks for a tool in every response goes
\* on without end, so it is never Done.
C17_Original == AlwaysRequests => terminal # "Done"

\* C17 amended: the number of rounds is fixed by the first response: a query
\* makes at most N tool calls and 1 + N completion calls, N being the number
\* of tool_use blocks of the first response, and when every call returns or
\* fails a query whose model asks for a tool in every response ends in Done
\* or Failed like any other.
C17_RoundsBoundedByFirstResponse ==
    /\ [](FirstResponseSeen =>
            /\ Len(InvokeCalls) <= Len(ToolUses(CompleteCalls[1].resp))
            /\ Len(CompleteCalls) <= 1 + Len(ToolUses(CompleteCalls[1].resp)))
    /\ (AlwaysRequests /\ InQuery) ~> (terminal \in {"Done", "Failed"})

C17_Witness ==
    /\ AlwaysRequests
    /\ terminal = "Done"
    /\ Len(ToolUses(CompleteCalls[1].resp)) = 2
    /\ Len(CompleteCalls) = 3
    /\ Len(InvokeCalls) = 2

\* block i of the first response has been stored in assistant_content: a text
\* block the loop has passed, or a tool_use block whose call_tool returned
Kept(i) ==
    \/ content_iter[i].type = "text" /\ i < idx
    \/ /\ content_iter[i].type = "tool_use"
       /\ ToolOrd(i) <= Len(InvokeCalls)
       /\ InvokeOf(i).outcome = "ok"

RECURSIVE KeptBlocks(_)
KeptBlocks(n) ==
    IF n = 0 THEN << >>
    ELSE KeptBlocks(n - 1) \o (IF Kept(n) THEN << content_iter[n] >> ELSE << >>)

\* the turns lines 102-117 add for the tool_use blocks among bs
RECURSIVE ResultTurns(_)
ResultTurns(bs) ==
    IF Len(bs) = 0 THEN << >>
    ELSE (IF bs[1].type = "tool_use"
          THEN << AssistantRef,
                  UserBlocks(<< ToolResultBlock(bs[1].id,
                                               CHOOSE p \in Payloads : TRUE) >>) >>
          ELSE << >>)
         \o ResultTurns(Tail(bs))

\* C18: the step in which call_tool fails changes neither messages nor
\* assistant_content, and at any time after the first response both are what
\* the blocks other than the failed requests give: assistant_content holds
\* the text blocks passed and the tool_use blocks whose call returned, in
\* order; messages holds the query and, per tool_use block whose call
\* returned, an assistant turn and a tool_result turn with its id. A failed
\* request contributes nothing, so what the later blocks and their follow-up
\* calls see is the same with or without it.
C18_FailedInvokeLeavesTranscript ==
    /\ [][ ( /\ Len(calls') = Len(calls) + 1
             /\ calls'[Len(calls')].op = "call_tool"
             /\ calls'[Len(calls')].outcome = "error" ) =>
           ( /\ messages' = messages
             /\ assistant_content' = assistant_content
             /\ Transcript' = Transcript ) ]_vars
    /\ [](FirstResponseSeen =>
            /\ assistant_content = KeptBlocks(Len(content_iter))
            /\ messages = << UserText(query) >> \o ResultTurns(assistant_content))

C18_Witness ==
    /\ terminal = "Done"
    /\ Len(content_iter) = 3
    /\ content_iter[1].type = "tool_use"
    /\ InvokeOf(1).outcome = "ok"
    /\ InvokeFailedAt(2)
    /\ content_iter[3].type = "tool_use"
    /\ InvokeOf(3).outcome = "ok"
    /\ Len(FollowUpOf(3).transcript) = 5
    /\ Len(assistant_content) = 2

\* roles alternate, the first turn being the user's
Alternates(tr) ==
    \A k \in 1..Len(tr) :
        tr[k].role = (IF k % 2 = 1 THEN "user" ELSE "assistant")

\* every tool_use block of an assistant turn is answered by a tool_result
\* block with its id in the turn right after it
ToolUsesAnswered(tr) ==
    \A k \in 1..Len(tr) :
        tr[k].role = "assistant" =>
            \A j \in 1..Len(tr[k].blocks) :
                tr[k].blocks[j].type = "tool_use" =>
                    /\ k < Len(tr)
                    /\ \E m \in 1..Len(tr[k + 1].blocks) :
                          /\ tr[k + 1].blocks[m].type = "tool_result"
                          /\ tr[k + 1].blocks[m].id = tr[k].blocks[j].id

\* C19 as stated: every transcript given to a completion call alternates
\* roles from the user turn on and answers each tool_use block of an
\* assistant turn in the user turn that follows.
C19_Claim ==
    \A p \in PosOf("complete") :
        /\ Alternates(calls[p].transcript)
        /\ ToolUsesAnswered(calls[p].transcript)

\* the calls made through or on behalf of the session inside the body
BodyOps == { "list_tools", "complete", "call_tool" }

\* C20: a step that makes a list_tools, completion or call_tool call starts
\* with transport and session entered; in the log every such call comes
\* after the initialize that returned and before any close; while the body
\* runs both contexts are open; and a query is Done, its result joined, only
\* with nothing open and the close as its last call, the step that sets the
\* result being the one that exits the contexts.
C20_CallsInsideOpenSession ==
    /\ [][ ( /\ Len(calls') = Len(calls) + 1
             /\ calls'[Len(calls')].op \in BodyOps ) =>
           open = Resources ]_vars
    /\ [][ (terminal' = "Done" /\ terminal # "Done") =>
           (open = Resources /\ open' = {} /\ result' = Join(final_text)) ]_vars
    /\ [](\A p \in 1..Len(calls) :
            calls[p].op \in BodyOps =>
                /\ \E q \in 1..(p - 1) :
                      calls[q].op = "initialize" /\ calls[q].outcome = "ok"
                /\ \A q \in 1..(p - 1) : calls[q].op # "close")
    /\ [](pc \in {"list", "complete", "loop", "followup", "closing"} =>
            open = Resources)
    /\ [](terminal = "Done" =>
            /\ open = {}
            /\ calls[Len(calls)].op = "close"
            /\ result = Join(final_text))
    /\ [](terminal # "Done" => result = "")

C20_Witness ==
    /\ terminal = "Done"
    /\ open = {}
    /\ result # ""
    /\ Len(InvokeCalls) = 1
    /\ Len(CompleteCalls) = 2
    /\ Cardinality(PosOf("list_tools")) = 1

ProbePcs == { "probe_open", "probe_enter", "probe_init", "probe_list",
              "probe_closing" }

ProbeOps == << "probe_open", "probe_enter", "probe_initialize",
               "probe_list_tools", "probe_close" >>

\* C14: the probe makes its calls in the order open, enter, handshake, list,
\* close, one after the other having returned. Startup is over (lifespan
\* yields) only when all five returned, nothing being open then. When one of
\* them raises, startup is aborted with nothing left open, lifespan having
\* raised one RuntimeError whose text holds the connectivity error's text,
\* which holds the text of what was raised, the raised value itself being the
\* error's context. From an aborted startup no step is taken: no request is
\* received and no response is produced. No startup error exists otherwise.
C14_ProbeGuardsStartup ==
    /\ [](pc \in ProbePcs \cup {"aborted"} =>
            /\ Len(calls) <= Len(ProbeOps)
            /\ \A p \in 1..Len(calls) :
                  /\ calls[p].op = ProbeOps[p]
                  /\ p < Len(calls) => calls[p].outcome = "ok")
    /\ [][ (pc \in ProbePcs /\ pc' = "idle") =>
           ( /\ Len(calls') = Len(ProbeOps)
             /\ \A p \in 1..Len(calls') : calls'[p].outcome = "ok"
             /\ open' = {}
             /\ \A r \in Resources : acq'[r] = 1 /\ rel'[r] = 1 ) ]_vars
    /\ [](pc = "aborted" =>
            LET c == calls[Len(calls)] IN
            /\ c.outcome = "error"
            /\ open = {}
            /\ \A r \in Resources : rel[r] = acq[r]
            /\ startup_error.context = c.exc
            /\ startup_error.raised =
                  Naked(Exc("RuntimeError",
                            "MCP connection failed: Failed to connect to MCP server: "
                            \o Str(c.exc)))
            /\ http = << >>)
    /\ [][pc = "aborted" => UNCHANGED vars]_vars
    /\ [](pc # "aborted" => startup_error = NoStartupError)
    /\ [](pc \in ProbePcs => (http = << >> /\ query = ""))

C14_Witness ==
    /\ pc = "aborted"
    /\ Len(calls) = 4
    /\ calls[3].outcome = "ok"
    /\ calls[4].op = "probe_list_tools"
    /\ calls[4].exc = Naked(Exc("McpError", "closed"))
    /\ acq["session"] = 1
    /\ rel["session"] = 1
    /\ open = {}
    /\ startup_error.raised.exceptions[1].text =
          "MCP connection failed: Failed to connect to MCP server: closed"

\* the locals and loop position of a request that is given the service
\* answers of script sc and session h with no other request around
RECURSIVE ReplayOuts(_, _, _)
ReplayOuts(st, bs, outs) ==
    IF Len(outs) = 0 THEN st
    ELSE ReplayOuts(Scan(AfterInvoke(st.frame, bs[st.idx], Head(outs)),
                         bs, st.idx + 1),
                    bs, Tail(outs))

RunAlone(q, h, sc) ==
    LET f0 == [EmptyFrame EXCEPT !.session = h] IN
    IF ~sc.listed THEN [frame |-> f0, idx |-> 0]
    ELSE ReplayOuts(Scan(StartBody(f0, q, sc.catalog, sc.first), sc.first, 1),
                    sc.first, sc.outs)

\* C11: with requests in flight together, at every moment the locals of each
\* request (catalog, transcript, assistant_content, final_text, response,
\* session) and its loop position are what the request gets when it runs
\* alone with the same service answers, and the result of a finished request
\* is the join of that run's fragments; each request makes its session calls
\* on the session it created itself, which no other request created and
\* which is open while the request is inside its async-with blocks; and a
\* step of one request changes nothing of another request, nor anything kept
\* on the shared client object.
C11_QueriesIsolated ==
    /\ [](\A t \in Tasks :
            LET ra == RunAlone(task[t].query, task[t].owned, task[t].script) IN
            /\ frame[t] = ra.frame
            /\ task[t].idx = ra.idx
            /\ task[t].pc = "Done" =>
                  task[t].result = Join(ra.frame.final_text)
            /\ task[t].used \subseteq { task[t].owned }
            /\ task[t].pc \in {"init", "list", "invoke", "closing"} =>
                  task[t].owned \in sessions
            /\ \A u \in Tasks \ {t} :
                  task[t].owned # 0 => task[u].owned # task[t].owned)
    /\ [](frame["self"] = EmptyFrame)
    /\ [][ \A t \in Tasks :
             task'[t] # task[t] =>
                 /\ \A u \in Tasks \ {t} : task'[u] = task[u]
                 /\ \A s \in Slots \ {t} : frame'[s] = frame[s] ]_vars

\* two requests are awaiting call_tool at the same time, each on its own
\* session, the first being at its second tool request, the other having
\* text in its answer already
C11_Witness ==
    /\ task["t1"].pc = "invoke"
    /\ task["t2"].pc = "invoke"
    /\ task["t1"].owned = 2
    /\ task["t2"].owned = 1
    /\ sessions = {1, 2}
    /\ task["t1"].query # task["t2"].query
    /\ Len(task["t1"].script.outs) = 1
    /\ task["t1"].script.outs[1].ok
    /\ Len(frame["t1"].messages) = 3
    /\ Len(frame["t2"].messages) = 1
    /\ Len(frame["t2"].final_text) = 1

====
